---- MODULE Spec2Model ----
\* gather_links.py: discovery of the artefacts, title resolution, frontmatter
\* parsing, the three-tier description chain and the catalog write.
\*
\* Text is a sequence of symbols.  A symbol is a one-character string ("-",
\* "\n", " ", "#", ".") or a word that holds none of the characters the code
\* searches for ("First", "category: x", "<title>"), so that a search for
\* "---", for a line break or for a title marker is a search over symbols.
\* The empty string is the empty sequence.  An optional value (Python's None
\* or a value) is a sequence of length 0 or 1.
EXTENDS Integers, Sequences, FiniteSets, TLC

VARIABLES
    dir,        \* the names of the entries of the working directory
    html,       \* artefact name -> its text, or Unreadable
    docs,       \* companion doc name -> its text, Unreadable, or Absent
    env,        \* [api_key, dry_run]: ANTHROPIC_API_KEY and LLM_DRY_RUN
    catalog,    \* tools.json: <<>> while not written, else <<document>>
    pc,         \* where main() is
    html_files, \* gather_tools: the sorted list of artefacts
    idx,        \* gather_tools: the loop index into html_files
    tools,      \* gather_tools: the records appended so far
    cur,        \* the iteration suspended in the external call
    calls,      \* history: artefact name -> external calls made in this run
    answers,    \* history: per run, artefact name -> what its call answered
    written,    \* history: the documents the completed runs wrote, in order
    fn,         \* pure-function checks: the function applied
    arg,        \* pure-function checks: its argument
    ret         \* pure-function checks: <<>> or <<result>>

vars == <<dir, html, docs, env, catalog, pc, html_files, idx, tools, cur,
          calls, answers, written, fn, arg, ret>>

\* ------------------------------------------------------------------ bounds
MaxFiles == 2
MaxBodyLen == 3
MaxHtmlLen == 4

\* -------------------------------------------------------------------- text
None == <<>>
Some(x) == <<x>>

Seqs(S, n) == UNION {[1..k -> S] : k \in 0..n}

StartsWith(s, p) == Len(s) >= Len(p) /\ SubSeq(s, 1, Len(p)) = p

EndsWith(s, p) == Len(s) >= Len(p) /\ SubSeq(s, Len(s) - Len(p) + 1, Len(s)) = p

\* The least index >= from at which p occurs in s, or 0.
Find(s, p, from) ==
    LET hits == {i \in from..(Len(s) - Len(p) + 1) : SubSeq(s, i, i + Len(p) - 1) = p}
    IN IF hits = {} THEN 0 ELSE CHOOSE i \in hits : \A j \in hits : i <= j

IsSpace(c) == c \in {" ", "\n"}

\* str.strip()
Strip(s) ==
    LET keep == {i \in 1..Len(s) : ~IsSpace(s[i])}
    IN IF keep = {} THEN <<>>
       ELSE LET lo == CHOOSE i \in keep : \A j \in keep : i <= j
                hi == CHOOSE i \in keep : \A j \in keep : i >= j
            IN SubSeq(s, lo, hi)

\* str.splitlines(): the text is cut at its line breaks; a final line break
\* opens no last empty line.
SplitLines(s) ==
    LET breaks == {i \in 1..Len(s) : s[i] = "\n"}
        Break(k) == CHOOSE i \in breaks : Cardinality({j \in breaks : j <= i}) = k
        n == IF s = <<>> THEN 0
             ELSE IF s[Len(s)] = "\n" THEN Cardinality(breaks)
             ELSE Cardinality(breaks) + 1
    IN [k \in 1..n |->
           SubSeq(s, IF k = 1 THEN 1 ELSE Break(k - 1) + 1,
                     IF k <= Cardinality(breaks) THEN Break(k) - 1 ELSE Len(s))]

Delim == <<"-", "-", "-">>

\* str.split('---', 2): at most two cuts, at the leftmost occurrences
SplitDelim(s) ==
    LET i == Find(s, Delim, 1)
    IN IF i = 0 THEN <<s>>
       ELSE LET j == Find(s, Delim, i + 3)
            IN IF j = 0 THEN <<SubSeq(s, 1, i - 1), SubSeq(s, i + 3, Len(s))>>
               ELSE <<SubSeq(s, 1, i - 1), SubSeq(s, i + 3, j - 1),
                      SubSeq(s, j + 3, Len(s))>>

\* ------------------------------------------------------------------- files
File(text) == [exists |-> TRUE, readable |-> TRUE, text |-> text]
Unreadable == [exists |-> TRUE, readable |-> FALSE, text |-> <<>>]
Absent == [exists |-> FALSE, readable |-> FALSE, text |-> <<>>]

\* Path.suffix and Path.stem: the name is cut at its last dot, unless that dot
\* is the first or the last character of the name.
LastDot(name) ==
    LET dots == {i \in 1..Len(name) : name[i] = "."}
    IN IF dots = {} THEN 0 ELSE CHOOSE i \in dots : \A j \in dots : i >= j

HasSuffix(name) == 1 < LastDot(name) /\ LastDot(name) < Len(name)

stem(name) == IF HasSuffix(name) THEN SubSeq(name, 1, LastDot(name) - 1) ELSE name

\* html_file.with_suffix('.docs.md')
with_suffix(name, suffix) == stem(name) \o suffix

DocsSuffix == <<".", "docs", ".", "md">>

IndexName == <<"index", ".", "html">>

\* Path('.').glob('*.html') with the filter f.name != 'index.html'
IsArtifact(name) == EndsWith(name, <<".", "html">>) /\ name # IndexName

\* The order of str on the symbols of names (code points: '-' 45, '.' 46,
\* upper case before lower case).  No symbol is a prefix of another, so the
\* order of the names by symbols is their order by characters.
SymRank(c) ==
    CASE c = "-" -> 1
      [] c = "." -> 2
      [] c = "Index" -> 3
      [] c = "a" -> 4
      [] c = "b" -> 5
      [] c = "docs" -> 6
      [] c = "html" -> 7
      [] c = "index" -> 8
      [] c = "md" -> 9

RECURSIVE NameLess(_, _)
NameLess(a, b) ==
    IF a = <<>> THEN b # <<>>
    ELSE IF b = <<>> THEN FALSE
    ELSE IF a[1] # b[1] THEN SymRank(a[1]) < SymRank(b[1])
    ELSE NameLess(Tail(a), Tail(b))

Least(S) == CHOOSE x \in S : \A y \in S \ {x} : NameLess(x, y)

\* sorted(...) of a set of names
RECURSIVE Sorted(_)
Sorted(S) ==
    IF S = {} THEN <<>>
    ELSE <<Least(S)>> \o Sorted(S \ {Least(S)})

\* ---------------------------------------------------------- title resolver
\* re.IGNORECASE on the two markers
LowerMarker(c) ==
    CASE c = "<Title>" -> "<title>"
      [] c = "</TITLE>" -> "</title>"
      [] OTHER -> c

IsLetters(c) == c \notin {"-", ".", " ", "\n"}

\* str.capitalize() of a run of letters
Capitalize(c) ==
    CASE c = "a" -> "A"
      [] c = "b" -> "B"
      [] c = "html" -> "Html"
      [] c = "index" -> "Index"
      [] c = "docs" -> "Docs"
      [] c = "md" -> "Md"
      [] OTHER -> c

\* str.lower() of a run of letters
LowerWord(c) == IF c = "Index" THEN "index" ELSE c

\* str.title(): a letter is upper case exactly when no letter precedes it
TitleCase(s) ==
    [i \in 1..Len(s) |->
        IF ~IsLetters(s[i]) THEN s[i]
        ELSE IF i > 1 /\ IsLetters(s[i - 1]) THEN LowerWord(s[i])
        ELSE Capitalize(s[i])]

\* str.replace('-', ' ')
ReplaceHyphens(s) == [i \in 1..Len(s) |-> IF s[i] = "-" THEN " " ELSE s[i]]

FilenameTitle(name) == TitleCase(ReplaceHyphens(stem(name)))

\* re.search(r'<title>(.*?)</title>', content, IGNORECASE | DOTALL): the first
\* opening marker and the first closing marker after it; <<>> when no match,
\* else <<group 1>>.
TitleMatch(content) ==
    LET opens == {i \in 1..Len(content) : LowerMarker(content[i]) = "<title>"}
        open == CHOOSE i \in opens : \A j \in opens : i <= j
        closes == {j \in 1..Len(content) :
                      LowerMarker(content[j]) = "</title>" /\ j > open}
        close == CHOOSE i \in closes : \A j \in closes : i <= j
    IN IF opens = {} THEN None
       ELSE IF closes = {} THEN None
       ELSE Some(SubSeq(content, open + 1, close - 1))

extract_title_from_html(name, file) ==
    IF file.readable /\ TitleMatch(file.text) # None
    THEN Strip(TitleMatch(file.text)[1])
    ELSE FilenameTitle(name)

\* ------------------------------------------------------- frontmatter parser
\* A value yaml.safe_load gives, or its raising: kind is "map", "scalar",
\* "list", "none" (Python's None) or "error" (yaml.YAMLError); entries are the
\* key-value pairs of a map, text the words of a scalar or the items of a list.
YamlMap(entries) == [kind |-> "map", entries |-> entries, text |-> <<>>]
YamlScalar(text) == [kind |-> "scalar", entries |-> <<>>, text |-> text]
YamlList(text) == [kind |-> "list", entries |-> <<>>, text |-> text]
YamlNone == [kind |-> "none", entries |-> <<>>, text |-> <<>>]
YamlError == [kind |-> "error", entries |-> <<>>, text |-> <<>>]
EmptyDict == YamlMap(<<>>)

\* The header lines that are one "key: value" pair.
KeyValueLines == {"category: x", "tags: [a, b]", "tags: [a, a, B]", "title: t"}

KeyValue(c) ==
    CASE c = "category: x" -> [key |-> "category", type |-> "str", val |-> <<"x">>]
      [] c = "tags: [a, b]" -> [key |-> "tags", type |-> "list", val |-> <<"a", "b">>]
      [] c = "tags: [a, a, B]" ->
             [key |-> "tags", type |-> "list", val |-> <<"a", "a", "B">>]
      [] c = "title: t" -> [key |-> "title", type |-> "str", val |-> <<"t">>]

\* A header line with a flow sequence that is never closed.
UnclosedLine == "a: ["

LineKind(line) ==
    IF \E i \in 1..Len(line) : line[i] = UnclosedLine THEN "bad"
    ELSE IF Len(line) = 1 /\ line[1] \in KeyValueLines THEN "pair"
    ELSE IF line = <<"-">> \/ StartsWith(line, <<"-", " ">>) THEN "item"
    ELSE "plain"

\* The lines of a block that hold something: not blank, not a comment.
RECURSIVE ContentLines(_)
ContentLines(lines) ==
    IF lines = <<>> THEN <<>>
    ELSE IF Strip(Head(lines)) = <<>> THEN ContentLines(Tail(lines))
    ELSE IF Strip(Head(lines))[1] = "#" THEN ContentLines(Tail(lines))
    ELSE <<Strip(Head(lines))>> \o ContentLines(Tail(lines))

\* dict[key] = value: a new key goes last, a known key keeps its place.
Put(entries, e) ==
    IF \E i \in 1..Len(entries) : entries[i].key = e.key
    THEN [i \in 1..Len(entries) |-> IF entries[i].key = e.key THEN e ELSE entries[i]]
    ELSE Append(entries, e)

RECURSIVE PutAll(_, _)
PutAll(entries, lines) ==
    IF lines = <<>> THEN entries
    ELSE PutAll(Put(entries, KeyValue(Head(lines)[1])), Tail(lines))

RECURSIVE JoinLines(_)
JoinLines(lines) ==
    IF lines = <<>> THEN <<>>
    ELSE IF Len(lines) = 1 THEN Head(lines)
    ELSE Head(lines) \o <<" ">> \o JoinLines(Tail(lines))

RECURSIVE Items(_)
Items(lines) ==
    IF lines = <<>> THEN <<>>
    ELSE (IF Strip(Tail(Head(lines))) = <<>> THEN <<"null">>
          ELSE Strip(Tail(Head(lines))))
         \o Items(Tail(lines))

\* yaml.safe_load on a header block: block pairs give a map, block items a
\* list, plain text a scalar, nothing None; an unclosed flow sequence or a mix
\* of the three forms raises.
safe_load(block) ==
    LET lines == ContentLines(SplitLines(block))
        kinds == {LineKind(lines[i]) : i \in 1..Len(lines)}
    IN IF lines = <<>> THEN YamlNone
       ELSE IF kinds = {"pair"} THEN YamlMap(PutAll(<<>>, lines))
       ELSE IF kinds = {"item"} THEN YamlList(Items(lines))
       ELSE IF kinds = {"plain"} THEN YamlScalar(JoinLines(lines))
       ELSE YamlError

\* Python truth of a loaded value, for `yaml.safe_load(parts[1]) or {}`
Truthy(v) ==
    CASE v.kind = "none" -> FALSE
      [] v.kind = "map" -> v.entries # <<>>
      [] OTHER -> v.text # <<>>

\* parse_frontmatter(content) -> [frontmatter, remaining]
parse_frontmatter(content) ==
    IF ~StartsWith(content, Delim) THEN [frontmatter |-> EmptyDict, remaining |-> content]
    ELSE LET parts == SplitDelim(content)
             loaded == safe_load(parts[2])
         IN IF Len(parts) < 3 THEN [frontmatter |-> EmptyDict, remaining |-> content]
            ELSE IF loaded.kind = "error"
            THEN [frontmatter |-> EmptyDict, remaining |-> content]
            ELSE [frontmatter |-> IF Truthy(loaded) THEN loaded ELSE EmptyDict,
                  remaining |-> Strip(parts[3])]

\* ------------------------------------------------------ description resolver
\* Without `and not line.startswith('#')`: a heading is taken as the description
RECURSIVE FirstLineWithHeadings(_)
FirstLineWithHeadings(lines) ==
    IF lines = <<>> THEN <<>>
    ELSE IF Strip(Head(lines)) # <<>> THEN Strip(Head(lines))
    ELSE FirstLineWithHeadings(Tail(lines))

\* The first line that is, stripped, neither empty nor a heading; "" if none.
RECURSIVE FirstTextLine(_)
FirstTextLine(lines) ==
    IF lines = <<>> THEN <<>>
    ELSE IF Strip(Head(lines)) # <<>> /\ Strip(Head(lines))[1] # "#"
    THEN Strip(Head(lines))
    ELSE FirstTextLine(Tail(lines))

\* extract_description_from_docs(docs_path) -> [description, metadata]
extract_description_from_docs(file) ==
    IF ~file.exists THEN [description |-> <<>>, metadata |-> EmptyDict]
    ELSE IF ~file.readable THEN [description |-> <<>>, metadata |-> EmptyDict]
    ELSE LET parsed == parse_frontmatter(Strip(file.text))
         IN [description |-> FirstTextLine(SplitLines(parsed.remaining)),
             metadata |-> parsed.frontmatter]

DefaultDescription == <<"No description available.">>

\* os.environ.get('ANTHROPIC_API_KEY') and the LLM_DRY_RUN comparison
LowerEnv(v) == IF v \in {"TRUE", "True"} THEN "true" ELSE v

\* Without `.lower()`: only the lower-case spelling switches the toggle on
dry_run_exact(e) == e.dry_run = "true"

dry_run(e) == LowerEnv(e.dry_run) = "true"

\* `if not api_key or dry_run: return None`: the call is skipped
LlmSkipped(e) == e.api_key = None \/ e.api_key = Some("") \/ dry_run(e)

\* dict.get(key) on the metadata: <<>> for None, <<value>> otherwise
Get(metadata, key) ==
    LET hits == {i \in 1..Len(metadata.entries) : metadata.entries[i].key = key}
    IN IF hits = {} THEN None
       ELSE LET i == CHOOSE i \in hits : TRUE
            IN Some([type |-> metadata.entries[i].type, val |-> metadata.entries[i].val])

\* metadata.get raises AttributeError on a str or a list
HasGet(metadata) == metadata.kind = "map"

\* The default taken for tags whatever the metadata hold
ToolMetadataNoTags(name, title, description, metadata) ==
    [slug |-> stem(name),
     title |-> title,
     description |-> description,
     url |-> name,
     category |-> Get(metadata, "category"),
     tags |-> [type |-> "list", val |-> <<>>]]

\* ToolMetadata(...), with __post_init__ turning tags None into []
ToolMetadata(name, title, description, metadata) ==
    [slug |-> stem(name),
     title |-> title,
     description |-> description,
     url |-> name,
     category |-> Get(metadata, "category"),
     tags |-> IF Get(metadata, "tags") = None
              THEN [type |-> "list", val |-> <<>>]
              ELSE Get(metadata, "tags")[1]]

\* ---------------------------------------------------------------- serializer
RECURSIVE JoinComma(_)
JoinComma(texts) ==
    IF texts = <<>> THEN <<>>
    ELSE IF Len(texts) = 1 THEN Head(texts)
    ELSE Head(texts) \o <<",">> \o JoinComma(Tail(texts))

JsonString(s) == <<"\"">> \o s \o <<"\"">>

JsonArray(texts) == <<"[">> \o JoinComma(texts) \o <<"]">>

JsonValue(v) ==
    IF v.type = "str" THEN JsonString(v.val)
    ELSE JsonArray([i \in 1..Len(v.val) |-> JsonString(<<v.val[i]>>)])

\* asdict(tool) rendered by json.dump: the fields in declaration order
JsonRecord(t) ==
    <<"{", "slug:">> \o JsonString(t.slug)
    \o <<",", "title:">> \o JsonString(t.title)
    \o <<",", "description:">> \o JsonString(t.description)
    \o <<",", "url:">> \o JsonString(t.url)
    \o <<",", "category:">>
    \o (IF t.category = None THEN <<"null">> ELSE JsonValue(t.category[1]))
    \o <<",", "tags:">> \o JsonValue(t.tags)
    \o <<"}">>

\* json.dump([asdict(tool) for tool in tools], f, indent=2, ensure_ascii=False)
Dump(records) == JsonArray([i \in 1..Len(records) |-> JsonRecord(records[i])])

\* open('a'): the document is added to what the file held
WriteFileAppending(old, document) ==
    IF old = None THEN Some(document) ELSE Some(old[1] \o document)

\* open('w') truncates: the document replaces what the file held
WriteFile(old, document) == Some(document)

\* -------------------------------------------------------------------- inputs
Names ==
    { <<"a", ".", "html">>,
      <<"a", "-", "b", ".", "html">>,
      <<".", "html">>,
      <<".", "html", ".", "html">>,
      IndexName }

HtmlFiles ==
    { File(<<"<Title>", "\n", "Foo", "\n", "</title>">>),
      File(<<"Foo">>) }

HeaderFull == <<"\n", "category: x", "\n", "tags: [a, a, B]", "\n">>
HeaderCategory == <<"\n", "category: x", "\n">>
HeaderScalar == <<"\n", "First", "\n">>
HeaderList == <<"\n", "-", " ", "a", "\n">>
HeaderUnclosed == <<"\n", UnclosedLine, "\n">>

BodyText == <<"\n", "#", " ", "Heading", "\n", "\n", "First", "\n", "Second">>
BodyHeading == <<"\n", "#", " ", "Heading", "\n">>

DocFiles ==
    { Absent,
      File(<<>>),
      File(BodyHeading),
      File(BodyText),
      File(Delim \o HeaderFull \o Delim \o BodyText),
      File(Delim \o HeaderCategory \o Delim \o BodyHeading),
      File(Delim \o HeaderScalar \o Delim \o BodyText),
      File(Delim \o HeaderUnclosed \o Delim \o BodyText) }

DocFilesLive == {Absent, File(BodyText)}

DocFilesRerun ==
    { Absent,
      File(BodyText),
      File(Delim \o HeaderFull \o Delim \o BodyHeading) }

AllDocFiles == DocFiles \cup DocFilesLive \cup DocFilesRerun

\* The variable unset, set to the empty string, set; the toggle unset or set.
Envs ==
    { [api_key |-> None, dry_run |-> ""],
      [api_key |-> Some(""), dry_run |-> ""],
      [api_key |-> Some("sk"), dry_run |-> ""],
      [api_key |-> Some("sk"), dry_run |-> "TRUE"] }

\* What message.content[0].text can be.
Replies == { <<" ", "Generated", "\n">>, <<" ">> }

DocsName(name) == with_suffix(name, DocsSuffix)

Artifacts(d) == {n \in d : IsArtifact(n)}

NoCur == [name |-> <<>>, title |-> <<>>, metadata |-> EmptyDict]

InitRun ==
    /\ catalog = None
    /\ pc = "start"
    /\ html_files = <<>>
    /\ idx = 1
    /\ tools = <<>>
    /\ cur = NoCur
    /\ calls = [n \in Names |-> 0]
    /\ answers = <<<<>>>>
    /\ written = <<>>
    /\ fn = "none" /\ arg = <<>> /\ ret = <<>>

Init ==
    /\ dir \in {d \in SUBSET Names : Cardinality(d) <= MaxFiles}
    /\ html \in [Artifacts(dir) -> HtmlFiles]
    /\ docs \in [{DocsName(n) : n \in Artifacts(dir)} -> DocFiles]
    /\ env \in Envs
    /\ InitRun

\* ------------------------------------------------------------- gather_tools
fsvars == <<dir, html, docs, env>>
fnvars == <<fn, arg, ret>>

Run == Len(answers)

\* html_files = sorted([f for f in Path('.').glob('*.html') if f.name != 'index.html'])
Discover ==
    /\ pc = "start"
    /\ html_files' = Sorted(Artifacts(dir))
    /\ tools' = <<>>
    /\ idx' = 1
    /\ pc' = "loop"
    /\ UNCHANGED <<fsvars, fnvars, catalog, cur, calls, answers, written>>

\* The two extractions on every file of the inputs, evaluated once.
TitleOf == [n \in Names, f \in HtmlFiles |-> extract_title_from_html(n, f)]
FromDocsOf == [f \in AllDocFiles |-> extract_description_from_docs(f)]

\* The loop body up to the description from the docs:
\* title = extract_title_from_html(html_file)
\* description, metadata = extract_description_from_docs(docs_file)
HtmlFile == html_files[idx]
Title == TitleOf[HtmlFile, html[HtmlFile]]
FromDocs == FromDocsOf[docs[DocsName(HtmlFile)]]

\* tools.append(ToolMetadata(...)) and the next iteration; metadata.get on a
\* value that is no dict raises out of gather_tools and main.
AppendRecord(name, title, description, metadata) ==
    IF HasGet(metadata)
    THEN /\ tools' = Append(tools, ToolMetadata(name, title, description, metadata))
         /\ idx' = idx + 1
         /\ pc' = "loop"
    ELSE /\ pc' = "crashed"
         /\ UNCHANGED <<tools, idx>>

\* `llm_desc if llm_desc is not None else ...`: an empty text is kept
OrDefaultNotNone(llm_desc) == IF llm_desc = None THEN DefaultDescription ELSE llm_desc[1]

\* `description = llm_desc or "No description available."`
OrDefault(llm_desc) ==
    IF llm_desc = None \/ llm_desc = Some(<<>>) THEN DefaultDescription ELSE llm_desc[1]

\* An iteration in which the docs give the description, or the external call
\* is skipped (no key, or dry run).
Resolve ==
    /\ pc = "loop"
    /\ idx <= Len(html_files)
    /\ FromDocs.description # <<>> \/ LlmSkipped(env)
    /\ AppendRecord(HtmlFile, Title,
                    IF FromDocs.description # <<>> THEN FromDocs.description
                    ELSE OrDefault(None),
                    FromDocs.metadata)
    /\ UNCHANGED <<fsvars, fnvars, catalog, html_files, cur, calls, answers, written>>

\* An iteration in which generate_description_with_llm fails before it calls:
\* `from anthropic import Anthropic` raises ImportError, or read_text raises.
GenerateUnavailable ==
    /\ pc = "loop"
    /\ idx <= Len(html_files)
    /\ FromDocs.description = <<>>
    /\ ~LlmSkipped(env)
    /\ AppendRecord(HtmlFile, Title, OrDefault(None), FromDocs.metadata)
    /\ UNCHANGED <<fsvars, fnvars, catalog, html_files, cur, calls, answers, written>>

\* client.messages.create(...) is sent; the iteration waits for the answer.
StartCall ==
    /\ pc = "loop"
    /\ idx <= Len(html_files)
    /\ FromDocs.description = <<>>
    /\ ~LlmSkipped(env)
    /\ html[HtmlFile].readable
    /\ cur' = [name |-> HtmlFile, title |-> Title, metadata |-> FromDocs.metadata]
    /\ calls' = [calls EXCEPT ![HtmlFile] = @ + 1]
    /\ pc' = "calling"
    /\ UNCHANGED <<fsvars, fnvars, catalog, html_files, idx, tools, answers, written>>

Logged(name, llm_desc) ==
    [answers EXCEPT ![Run] = Append(@, [name |-> name, llm_desc |-> llm_desc])]

\* The collaborator answers: description = message.content[0].text.strip()
CallAnswers ==
    /\ pc = "calling"
    /\ \E reply \in Replies :
          /\ AppendRecord(cur.name, cur.title, OrDefault(Some(Strip(reply))), cur.metadata)
          /\ answers' = Logged(cur.name, Some(Strip(reply)))
    /\ cur' = NoCur
    /\ UNCHANGED <<fsvars, fnvars, catalog, html_files, calls, written>>

\* The call raises (network error, a timeout of the client library, a
\* response without content): `except Exception` returns None.
CallFails ==
    /\ pc = "calling"
    /\ AppendRecord(cur.name, cur.title, OrDefault(None), cur.metadata)
    /\ answers' = Logged(cur.name, None)
    /\ cur' = NoCur
    /\ UNCHANGED <<fsvars, fnvars, catalog, html_files, calls, written>>

\* `return tools`
Return ==
    /\ pc = "loop"
    /\ idx > Len(html_files)
    /\ pc' = "returned"
    /\ UNCHANGED <<fsvars, fnvars, catalog, html_files, idx, tools, cur, calls,
                   answers, written>>

\* main(): the catalog write after gather_tools returned
WriteCatalog ==
    /\ pc = "returned"
    /\ catalog' = WriteFile(catalog, Dump(tools))
    /\ written' = Append(written, catalog'[1])
    /\ pc' = "done"
    /\ UNCHANGED <<fsvars, fnvars, html_files, idx, tools, cur, calls, answers>>

\* The program is run a second time on the same directory and environment.
Rerun ==
    /\ pc = "done"
    /\ Run < 2
    /\ pc' = "start"
    /\ html_files' = <<>>
    /\ idx' = 1
    /\ tools' = <<>>
    /\ calls' = [n \in Names |-> 0]
    /\ answers' = Append(answers, <<>>)
    /\ UNCHANGED <<fsvars, fnvars, catalog, cur, written>>

Next ==
    \/ Discover
    \/ Resolve
    \/ GenerateUnavailable
    \/ StartCall
    \/ CallAnswers
    \/ CallFails
    \/ Return
    \/ WriteCatalog

Spec == Init /\ [][Next]_vars

NamesLive == {<<"a", ".", "html">>, <<"a", "-", "b", ".", "html">>, IndexName}

\* A specification of the pipeline that states what the program's own steps
\* are sure to do: a step of gather_tools or main that can be taken is taken.
\* Nothing in the code ends a call the collaborator leaves unanswered (no
\* timeout is passed to Anthropic(...) or to messages.create), so the two
\* ends of a call, CallAnswers and CallFails, are under no fairness.
ProgramStep ==
    Discover \/ Resolve \/ GenerateUnavailable \/ StartCall \/ Return \/ WriteCatalog

InitLive ==
    /\ dir \in {d \in SUBSET NamesLive : Cardinality(d) <= MaxFiles}
    /\ html \in [Artifacts(dir) -> HtmlFiles]
    /\ docs \in [{DocsName(n) : n \in Artifacts(dir)} -> DocFilesLive]
    /\ env \in Envs
    /\ InitRun

LiveSpec == InitLive /\ [][Next]_vars /\ WF_vars(ProgramStep)

\* ------------------------------------------------------------------ two runs
NamesRerun == NamesLive

InitRerun ==
    /\ dir \in {d \in SUBSET NamesRerun : Cardinality(d) <= MaxFiles}
    /\ html \in [Artifacts(dir) -> HtmlFiles]
    /\ docs \in [{DocsName(n) : n \in Artifacts(dir)} -> DocFilesRerun]
    /\ env \in Envs
    /\ InitRun

NextRerun == Next \/ Rerun

SpecRerun == InitRerun /\ [][NextRerun]_vars

\* ----------------------------------------------- the functions on their own
InitIdle ==
    /\ dir = {}
    /\ html = <<>>
    /\ docs = <<>>
    /\ env = [api_key |-> None, dry_run |-> ""]
    /\ catalog = None
    /\ pc = "idle"
    /\ html_files = <<>>
    /\ idx = 1
    /\ tools = <<>>
    /\ cur = NoCur
    /\ calls = [n \in Names |-> 0]
    /\ answers = <<<<>>>>
    /\ written = <<>>
    /\ ret = None

pipevars == <<dir, html, docs, env, catalog, pc, html_files, idx, tools, cur,
              calls, answers, written>>

HtmlSymbols == {"<title>", "<Title>", "</title>", "Foo", " ", "\n"}

InitTitle ==
    /\ InitIdle
    /\ fn = "extract_title_from_html"
    /\ arg \in [name : Names \ {IndexName},
                file : {File(t) : t \in Seqs(HtmlSymbols, MaxHtmlLen)} \cup {Unreadable}]

ApplyTitle ==
    /\ fn = "extract_title_from_html"
    /\ ret = None
    /\ ret' = Some(extract_title_from_html(arg.name, arg.file))
    /\ UNCHANGED <<pipevars, fn, arg>>

NextTitle == ApplyTitle

SpecTitle == InitTitle /\ [][NextTitle]_vars

BodySymbols == {"\n", "#", " ", "First"}
Bodies == Seqs(BodySymbols, MaxBodyLen)

Headers ==
    {<<>>, <<"\n">>, HeaderFull, HeaderCategory, HeaderScalar, HeaderList, HeaderUnclosed}

\* A body alone; a header between two delimiters and a body, which may hold
\* a third delimiter; a header whose closing delimiter is missing.
Contents ==
    Bodies
    \cup {Delim \o h \o Delim \o b : h \in Headers, b \in Bodies}
    \cup {Delim \o h \o Delim \o b \o <<"\n">> \o Delim \o <<"\n", "Second">> :
             h \in Headers, b \in Bodies}
    \cup {Delim \o h \o b : h \in Headers, b \in Bodies}

InitFrontmatter ==
    /\ InitIdle
    /\ fn \in {"parse_frontmatter", "extract_description_from_docs"}
    /\ arg \in {File(c) : c \in Contents}
               \cup (IF fn = "parse_frontmatter" THEN {} ELSE {Absent, Unreadable})

ApplyParse ==
    /\ fn = "parse_frontmatter"
    /\ ret = None
    /\ ret' = Some(parse_frontmatter(arg.text))
    /\ UNCHANGED <<pipevars, fn, arg>>

ApplyExtract ==
    /\ fn = "extract_description_from_docs"
    /\ ret = None
    /\ ret' = Some(extract_description_from_docs(arg))
    /\ UNCHANGED <<pipevars, fn, arg>>

NextFrontmatter == ApplyParse \/ ApplyExtract

SpecFrontmatter == InitFrontmatter /\ [][NextFrontmatter]_vars

\* ===================================================================== claims
\* What the claims expect of each companion doc, written out by hand.
DocFull == File(Delim \o HeaderFull \o Delim \o BodyText)
DocFullHeading == File(Delim \o HeaderFull \o Delim \o BodyHeading)
DocCategoryHeading == File(Delim \o HeaderCategory \o Delim \o BodyHeading)
DocScalar == File(Delim \o HeaderScalar \o Delim \o BodyText)
DocUnclosed == File(Delim \o HeaderUnclosed \o Delim \o BodyText)

\* The first line of the body that is neither blank nor a heading.  The body
\* of DocUnclosed is the whole content, whose first line is the delimiter.
ExpectedLine(doc) ==
    CASE doc \in {File(BodyText), DocFull, DocScalar} -> <<"First">>
      [] doc = DocUnclosed -> Delim
      [] OTHER -> <<>>

ExpectedCategory(doc) ==
    IF doc \in {DocFull, DocFullHeading, DocCategoryHeading}
    THEN Some([type |-> "str", val |-> <<"x">>])
    ELSE None

ExpectedTags(doc) ==
    IF doc \in {DocFull, DocFullHeading} THEN <<"a", "a", "B">> ELSE <<>>

DocOf(record) == docs[DocsName(record.url)]

\* What generate_description_with_llm returned for a record in this run, when
\* the call was made and ended.
AnswersFor(record) ==
    {answers[Run][i].llm_desc : i \in {j \in 1..Len(answers[Run]) :
                                          answers[Run][j].name = record.url}}

Records == {tools[i] : i \in 1..Len(tools)}

\* C1: the list gather_tools returns holds exactly one record per entry of
\* the directory whose name ends in .html and is not index.html, none for
\* another entry, in the lexicographic order of the names, and no two
\* records have the same slug.
C1_OneRecordPerArtifactSortedUniqueSlugs ==
    pc = "returned" =>
        /\ {tools[i].url : i \in 1..Len(tools)}
              = {n \in dir : EndsWith(n, <<".", "html">>) /\ n # IndexName}
        /\ \A i, j \in 1..Len(tools) : i < j => NameLess(tools[i].url, tools[j].url)
        /\ \A i, j \in 1..Len(tools) : i # j => tools[i].slug # tools[j].slug

\* C2: the title resolved for an artefact is a non-empty string, whatever the
\* content of the artefact and whether or not it can be read.
C2_TitleNonEmpty ==
    (fn = "extract_title_from_html" /\ ret # None) => ret[1] # <<>>

\* C3: the description of every record is a non-empty string, whatever the
\* three tiers gave.
C3_DescriptionNonEmpty == \A t \in Records : t.description # <<>>

\* C3 witness: a record whose call answered a text that is empty once trimmed.
C3_Witness ==
    /\ pc = "done"
    /\ \E t \in Records :
          /\ AnswersFor(t) = {Some(<<>>)}
          /\ DocOf(t) = DocCategoryHeading

\* C4: in one run the collaborator is called at most once per artefact, and
\* only for an artefact whose companion doc gave no description line, with
\* the credential variable present and the dry-run toggle not active; with
\* the toggle active no call is made at all.
C4_CallsGuardedAtMostOnce ==
    /\ \A n \in Names :
          /\ calls[n] <= 1
          /\ calls[n] > 0 =>
                /\ n \in dir
                /\ ExpectedLine(docs[DocsName(n)]) = <<>>
                /\ env.api_key # None
                /\ env.dry_run \notin {"true", "True", "TRUE"}
    /\ env.dry_run \in {"true", "True", "TRUE"} => \A n \in Names : calls[n] = 0

\* C4 witness: a run that ended after the call for an artefact was made.
C4_Witness == pc = "done" /\ \E n \in Names : calls[n] = 1

\* C5 as claimed: the description is the first body line that is neither
\* blank nor a heading; else the text the collaborator returned when the call
\* was made and succeeded; else the default literal.
C5_FirstTierWins_AsClaimed ==
    \A t \in Records :
        t.description =
            IF ExpectedLine(DocOf(t)) # <<>> THEN ExpectedLine(DocOf(t))
            ELSE IF \E a \in AnswersFor(t) : a # None
            THEN (CHOOSE a \in AnswersFor(t) : a # None)[1]
            ELSE DefaultDescription

\* C5 as amended: the text of the collaborator is the description only when
\* it is non-empty after trimming; an empty one gives the default literal.
\* With no companion doc and no credential the description is the literal.
C5_FirstTierWins ==
    \A t \in Records :
        /\ t.description =
              IF ExpectedLine(DocOf(t)) # <<>> THEN ExpectedLine(DocOf(t))
              ELSE IF \E a \in AnswersFor(t) : a # None /\ a # Some(<<>>)
              THEN (CHOOSE a \in AnswersFor(t) : a # None /\ a # Some(<<>>))[1]
              ELSE DefaultDescription
        /\ (DocOf(t) = Absent /\ env.api_key = None) => t.description = DefaultDescription

\* C5 witness: one record described by its companion doc and one by the
\* collaborator.
C5_Witness ==
    /\ pc = "done"
    /\ \E t, u \in Records :
          /\ t.description = <<"First">>
          /\ u.description = <<"Generated">>
          /\ AnswersFor(u) = {Some(<<"Generated">>)}

\* C6: no failure leaves gather_tools: whatever the companion doc of an
\* artefact holds, the run does not end in an exception.
C6_NoFailurePropagates == pc # "crashed"

\* C7 as claimed: two runs over the same files write the same document.
C7_Deterministic_AsClaimed == Len(written) = 2 => written[1] = written[2]

\* C7 as amended: two runs over the same files and environment in which the
\* collaborator returned the same for each artefact write the same document,
\* and the document of the second run is all the file holds.
C7_Deterministic ==
    (Len(written) = 2 /\ answers[1] = answers[2]) =>
        /\ written[1] = written[2]
        /\ catalog = Some(written[1])

\* C7 witness: two completed runs with the same answers, one of them a text.
C7_Witness ==
    /\ Len(written) = 2
    /\ answers[1] = answers[2]
    /\ \E i \in 1..Len(answers[1]) : answers[1][i].llm_desc = Some(<<"Generated">>)

\* The mapping the claim expects of a header block that is one; a block with
\* nothing in it gives the empty mapping.
ExpectedMapping(header) ==
    CASE header = HeaderFull ->
             YamlMap(<<[key |-> "category", type |-> "str", val |-> <<"x">>],
                       [key |-> "tags", type |-> "list", val |-> <<"a", "a", "B">>]>>)
      [] header = HeaderCategory ->
             YamlMap(<<[key |-> "category", type |-> "str", val |-> <<"x">>]>>)
      [] OTHER -> EmptyDict

\* C8: parse_frontmatter gives empty metadata and the content unchanged when
\* the content does not begin with the delimiter or splits into fewer than
\* three segments; otherwise the metadata are the key-value mapping of the
\* segment between the first two delimiters and the body is the segment
\* after the second.  An absent companion doc gives empty metadata and an
\* empty description.  The claim is read with the specification's own
\* example and fallback: the body is compared trimmed, and a header block
\* that does not parse gives empty metadata and the content unchanged.
C8_FrontmatterAsClaimed ==
    /\ (fn = "parse_frontmatter" /\ ret # None) =>
          LET content == arg.text
              parts == SplitDelim(content)
          IN IF ~StartsWith(content, Delim) \/ Len(parts) < 3
             THEN ret[1] = [frontmatter |-> EmptyDict, remaining |-> content]
             ELSE IF parts[2] = HeaderUnclosed
             THEN ret[1] = [frontmatter |-> EmptyDict, remaining |-> content]
             ELSE /\ ret[1].frontmatter.kind = "map"
                  /\ ret[1].frontmatter = ExpectedMapping(parts[2])
                  /\ Strip(ret[1].remaining) = Strip(parts[3])
    /\ (fn = "extract_description_from_docs" /\ ret # None /\ arg = Absent) =>
          ret[1] = [description |-> <<>>, metadata |-> EmptyDict]

\* C9: a call the collaborator does not answer eventually ends, so that the
\* run goes on to the remaining artefacts and returns.
C9_CallEventuallyEnds == (pc = "calling") ~> (pc # "calling")

\* C10: category and tags of a record are the values of the keys category and
\* tags of the header of its companion doc, the tags in order and unchanged;
\* null and the empty sequence when the doc, the header or the key is absent.
C10_CategoryAndTagsFromHeader ==
    \A t \in Records :
        /\ t.category = ExpectedCategory(DocOf(t))
        /\ t.tags = [type |-> "list", val |-> ExpectedTags(DocOf(t))]

\* C10 witness: a record described by the collaborator that carries the
\* category of its header, and one with the tags of its header.
C10_Witness ==
    /\ pc = "done"
    /\ \E t, u \in Records :
          /\ t.description = <<"Generated">>
          /\ t.category # None
          /\ u.tags.val = <<"a", "a", "B">>

====
